---- MODULE Spec2Model ----
(***************************************************************************)
(* Model of the swarm routing table (common/kademlia/kademlia.go) and of   *)
(* the per-peer bzz wire protocol session (bzz/protocol.go).               *)
(*                                                                         *)
(* Addresses are AddrBits-bit numbers (the source uses 256-bit hashes);     *)
(* bit 0 is the most significant bit.  Go slices are 0-based, sequences    *)
(* here are 1-based: Go index i is position i + 1.                         *)
(***************************************************************************)
EXTENDS Integers, Sequences, FiniteSets, TLC

\* ------------------------------------------------------------- parameters

\* width of an Address in bits (256 in the source), scaled down
AddrBits == 3

\* Kademlia.BucketSize (bucketSize = 20 in the source), scaled down
BucketSize == 2

\* Kademlia.MaxProx: maxProx = 255 = 8*len(Address) - 1
MaxProx == AddrBits - 1

\* Kademlia.MaxProxBinSize: Start sets it to BucketSize when left at 0
MaxProxBinSize == BucketSize

\* number of distinct LastActive() instants
MaxTime == 2

\* how far the counters count and proxSize may drift from what they count
MaxDrift == 1

\* largest max argument given to GetNodes
MaxGet == 3

Address == 0 .. (2 ^ AddrBits - 1)

\* the zero time.Time{}, which worstNode takes for "no oldest yet"
zeroTime == 0

\* Node.LastActive() values: instants after the zero time (the peers of the
\* bzz protocol answer time.Now())
Times == 1 .. MaxTime

\* Kademlia.addr, the table's own address
addr == 0

VARIABLES
    buckets,     \* Kademlia.buckets: bin index -> sequence of node addresses
    proxLimit,   \* Kademlia.proxLimit
    proxSize,    \* Kademlia.proxSize
    count,       \* Kademlia.count
    last         \* the last call made on the table, with what it saw

kadVars == <<buckets, proxLimit, proxSize, count, last>>

VARIABLES
    pc,              \* where runBzzProtocol stands
    err,             \* the error runBzzProtocol returns, "nil" while there is none
    written,         \* the codes of the messages written to rw, in order
    first,           \* what the ReadMsg of handleStatus returned
    msg,             \* what the last ReadMsg of handle returned
    dispatched,      \* the code of the message handle handed on, -1 if none
    addPeerCalls,    \* calls of hive.addPeer made by this session
    removePeerCalls, \* calls of hive.removePeer made by this session
    quitC            \* the session's quit channel: "open" or "closed"

bzzVars == <<pc, err, written, first, msg, dispatched, addPeerCalls, removePeerCalls, quitC>>

VARIABLES
    requestDb,   \* the keys held by the requests database, shared by all sessions
    dbStore,     \* the chunk keys for which localStore.dbStore.Get finds a chunk
    key,         \* storeRequestLoop's key
    nLeft,       \* storeRequestLoop's n
    it,          \* storeRequestLoop's iterator: the keys it ranges over, its position
    loop,        \* storeRequestLoop: "running" or "exited"
    enqueued,    \* the chunk keys put in the database for this peer, in the order of the puts
    stored       \* the chunk keys of the store messages the loop sent, in order

loopVars == <<requestDb, dbStore, key, nLeft, it, loop, enqueued, stored>>

VARIABLES
    nodeDB,               \* Kademlia.nodeDB: bin -> the addresses of its node records, in order
    nodeIndex,            \* Kademlia.nodeIndex: the addresses that have an entry
    currentMaxBucketSize, \* Kademlia.currentMaxBucketSize
    recording,            \* the nodes whose goroutine of AddNode has not run yet
    GetNode,              \* whether the callback Kademlia.GetNode is set
    notified,             \* the arguments of the GetNode goroutines the last table call started
    file,                 \* what the file at path holds
    loadErr               \* what the last Load returned, "none" before the first Load

dbVars == <<nodeDB, nodeIndex, currentMaxBucketSize, recording, GetNode, notified, file, loadErr>>

VARIABLE call   \* a call of proxCmp, proximity and proximityBin: its arguments and results

VARIABLES
    kadQuitC,   \* Kademlia.quitC: "nil" or "open"
    selfAddr    \* Kademlia.addr as the last Start set it

lifeVars == <<kadQuitC, selfAddr>>

VARIABLES
    msgData,    \* a retrieveRequestMsgData or peersMsgData: its fields Timeout and timeout
    timeCall    \* the last call of setTimeout or getTimeout on msgData

msgVars == <<msgData, timeCall>>

vars == <<kadVars, bzzVars, loopVars, dbVars, call, lifeVars, msgVars>>

\* ------------------------------------------------------ address arithmetic

\* bit i (0 = most significant) of address x
Bit(x, i) == (x \div (2 ^ (AddrBits - 1 - i))) % 2

\* x xor y, as the big-endian integer the source compares byte by byte
Xor(x, y) ==
    LET RECURSIVE go(_)
        go(i) == IF i = AddrBits THEN 0
                 ELSE (IF Bit(x, i) # Bit(y, i) THEN 2 ^ (AddrBits - 1 - i) ELSE 0) + go(i + 1)
    IN go(0)

\* proximity: the index of the first bit in which one and other differ
proximity(one, other) ==
    LET RECURSIVE go(_)
        go(i) == IF i = AddrBits THEN AddrBits
                 ELSE IF Bit(one, i) # Bit(other, i) THEN i
                 ELSE go(i + 1)
    IN go(0)

\* proximityBin without its bound MaxProx
proximityBinUnbounded(other) == proximity(addr, other)

\* Kademlia.proximityBin
proximityBin(other) ==
    LET ret == proximity(addr, other)
    IN IF ret > MaxProx THEN MaxProx ELSE ret

\* proxCmp with its two results exchanged
proxCmpExchanged(target, a, b) ==
    LET da == Xor(a, target)
        db == Xor(b, target)
    IN IF da > db THEN -1 ELSE IF da < db THEN 1 ELSE 0

\* proxCmp: -1 if a is closer to target, 1 if b is closer, 0 if equal
proxCmp(target, a, b) ==
    LET da == Xor(a, target)
        db == Xor(b, target)
    IN IF da > db THEN 1 ELSE IF da < db THEN -1 ELSE 0

\* ------------------------------------------------------------------ bucket

\* worstNode comparing with After instead of Before
worstNodeNewest(la) ==
    LET RECURSIVE go(_, _, _)
        go(i, newest, index) ==
            IF i > Len(la) THEN index
            ELSE IF newest = zeroTime \/ la[i] > newest THEN go(i + 1, la[i], i)
            ELSE go(i + 1, newest, index)
    IN go(1, zeroTime, 1)

\* bucket.worstNode over the LastActive() values la of the bucket's nodes
worstNode(la) ==
    LET RECURSIVE go(_, _, _)
        go(i, oldest, index) ==
            IF i > Len(la) THEN index
            ELSE IF oldest = zeroTime \/ la[i] < oldest THEN go(i + 1, la[i], i)
            ELSE go(i + 1, oldest, index)
    IN go(1, zeroTime, 1)

\* the test of bucket.insert with > for >=
bucketFullOff(nodes) == Len(nodes) > BucketSize

\* the condition under which bucket.insert replaces instead of appending
bucketFull(nodes) == Len(nodes) >= BucketSize

\* bucket.insert, with worst the index worstNode returned
insert(nodes, node, worst) ==
    IF bucketFull(nodes) THEN [nodes EXCEPT ![worst] = node]
    ELSE Append(nodes, node)

\* the removal loop of RemoveNode: i is re-tested against the shrunken slice
removeLoop(nodes, node) ==
    LET RECURSIVE go(_, _)
        go(ns, i) ==
            IF i > Len(ns) THEN ns
            ELSE IF ns[i] = node
                 THEN go(SubSeq(ns, 1, i - 1) \o SubSeq(ns, i + 1, Len(ns)), i + 1)
                 ELSE go(ns, i + 1)
    IN go(nodes, 1)

\* ------------------------------------------------------------- adjustProx

\* the case r == proxLimit without its loop over the following bins
adjustProxAtLimitOneStep(bs, limit, size) ==
    [proxLimit |-> limit + 1, proxSize |-> size]

\* case add > 0 && r == proxLimit
adjustProxAtLimit(bs, limit, size) ==
    LET RECURSIVE go(_, _)
        go(pl, ps) ==
            IF pl < MaxProx /\ Len(bs[pl]) > 0 THEN go(pl + 1, ps - Len(bs[pl]))
            ELSE [proxLimit |-> pl, proxSize |-> ps]
    IN go(limit + 1, size)

\* case add > 0 && r > proxLimit && proxSize+add > MaxProxBinSize
adjustProxOverflow(bs, r, limit, size) ==
    [proxLimit |-> limit + 1, proxSize |-> size - (Len(bs[r]) - 1)]

\* the removal case without its loop over the bins between r and proxLimit
adjustProxRemoveKeepSize(bs, r, limit, size) ==
    [proxLimit |-> r, proxSize |-> size]

\* case add < 0 && r < proxLimit && len(buckets[r].nodes) == 0
adjustProxRemove(bs, r, limit, size) ==
    LET RECURSIVE go(_, _)
        go(i, ps) == IF i > r THEN go(i - 1, ps + Len(bs[i])) ELSE ps
    IN [proxLimit |-> r, proxSize |-> go(limit - 1, size)]

\* adjustProx whose removal case does not test r < proxLimit
adjustProxAnyBin(bs, r, add, limit, size) ==
    IF add > 0 /\ r = limit THEN adjustProxAtLimit(bs, limit, size)
    ELSE IF add > 0 /\ r > limit /\ size + add > MaxProxBinSize
         THEN adjustProxOverflow(bs, r, limit, size)
    ELSE IF add > 0 /\ r > limit THEN [proxLimit |-> limit, proxSize |-> size + add]
    ELSE IF add < 0 /\ Len(bs[r]) = 0
         THEN adjustProxRemove(bs, r, limit, size)
    ELSE [proxLimit |-> limit, proxSize |-> size]

\* adjustProx whose second case tests proxSize+add >= MaxProxBinSize
adjustProxOverflowAtCap(bs, r, add, limit, size) ==
    IF add > 0 /\ r = limit THEN adjustProxAtLimit(bs, limit, size)
    ELSE IF add > 0 /\ r > limit /\ size + add >= MaxProxBinSize
         THEN adjustProxOverflow(bs, r, limit, size)
    ELSE IF add > 0 /\ r > limit THEN [proxLimit |-> limit, proxSize |-> size + add]
    ELSE IF add < 0 /\ r < limit /\ Len(bs[r]) = 0
         THEN adjustProxRemove(bs, r, limit, size)
    ELSE [proxLimit |-> limit, proxSize |-> size]

\* Kademlia.adjustProx(r, add) on buckets bs, with add = 1 or add = -1
adjustProx(bs, r, add, limit, size) ==
    IF add > 0 /\ r = limit THEN adjustProxAtLimit(bs, limit, size)
    ELSE IF add > 0 /\ r > limit /\ size + add > MaxProxBinSize
         THEN adjustProxOverflow(bs, r, limit, size)
    ELSE IF add > 0 /\ r > limit THEN [proxLimit |-> limit, proxSize |-> size + add]
    ELSE IF add < 0 /\ r < limit /\ Len(bs[r]) = 0
         THEN adjustProxRemove(bs, r, limit, size)
    ELSE [proxLimit |-> limit, proxSize |-> size]

\* --------------------------------------------------------------- operations

\* total length of the buckets lo .. hi of bs
sumLen(bs, lo, hi) ==
    LET RECURSIVE go(_)
        go(i) == IF i > hi THEN 0 ELSE Len(bs[i]) + go(i + 1)
    IN go(lo)

\* the explored states: counter n is within MaxDrift of the number of peers
\* in the bins pl .. MaxProx of bs
inRange(n, bs, pl) == n - sumLen(bs, pl, MaxProx) \in -MaxDrift .. MaxDrift

\* Kademlia.Start on a new table
KadInit ==
    /\ buckets = [i \in 0 .. MaxProx |-> <<>>]
    /\ proxLimit = 0
    /\ proxSize = 0
    /\ count = 0
    /\ last = [op |-> "Start", node |-> addr, index |-> 0, proxLimit |-> 0, len |-> 0]

\* Kademlia.AddNode(node); worst is what worstNode returns for the node's bin
AddNode(node, worst) ==
    LET index == proximityBin(node)
        bs == [buckets EXCEPT ![index] = insert(buckets[index], node, worst)]
        adj == IF index >= proxLimit
               THEN adjustProx(bs, index, 1, proxLimit, proxSize)
               ELSE [proxLimit |-> proxLimit, proxSize |-> proxSize]
    IN /\ inRange(count + 1, bs, 0)
       /\ inRange(adj.proxSize, bs, adj.proxLimit)
       /\ buckets' = bs
       /\ count' = count + 1
       /\ proxLimit' = adj.proxLimit
       /\ proxSize' = adj.proxSize
       /\ last' = [op |-> "AddNode", node |-> node, index |-> index, proxLimit |-> proxLimit,
                   len |-> Len(buckets[index])]

\* Kademlia.RemoveNode(node)
RemoveNode(node) ==
    LET index == proximityBin(node)
        bs == [buckets EXCEPT ![index] = removeLoop(buckets[index], node)]
        adj == IF Len(bs[index]) = 0
               THEN adjustProx(bs, index, -1, proxLimit, proxSize)
               ELSE [proxLimit |-> proxLimit, proxSize |-> proxSize]
    IN /\ inRange(count - 1, bs, 0)
       /\ inRange(adj.proxSize, bs, adj.proxLimit)
       /\ buckets' = bs
       /\ count' = count - 1
       /\ proxLimit' = adj.proxLimit
       /\ proxSize' = adj.proxSize
       /\ last' = [op |-> "RemoveNode", node |-> node, index |-> index, proxLimit |-> proxLimit,
                   len |-> Len(buckets[index])]

\* ------------------------------------------------------------------ getNodes

\* sort.Search(n, f): the first index i in [0, n) with f(i), by bisection;
\* f(i) is proxCmp(target, nodes[i].Addr(), node.Addr()) >= 0
search(nodes, node, target) ==
    LET RECURSIVE go(_, _)
        go(i, j) ==
            IF i < j
            THEN LET h == (i + j) \div 2
                 IN IF proxCmp(target, nodes[h + 1].addr, node.addr) >= 0
                    THEN go(i, h) ELSE go(h + 1, j)
            ELSE i
    IN go(0, Len(nodes))

\* nodesByDistance.push(node, max) on the list nodes ordered towards target
push(nodes, node, max, target) ==
    LET ix == search(nodes, node, target)
        grown == IF Len(nodes) < max THEN Append(nodes, node) ELSE nodes
    IN IF ix < Len(grown)
       THEN [k \in 1 .. Len(grown) |->
                IF k - 1 < ix THEN grown[k]
                ELSE IF k - 1 = ix THEN node ELSE grown[k - 1]]
       ELSE grown

\* the inner loop of getNodes: push every node of bin start, in bucket order
pushBucket(nodes, start, limit, target) ==
    LET RECURSIVE go(_, _)
        go(ns, i) ==
            IF i > Len(buckets[start]) THEN ns
            ELSE go(push(ns, [addr |-> buckets[start][i], bin |-> start, pos |-> i],
                         limit, target), i + 1)
    IN go(nodes, 1)

\* the break test of getNodes without its clauses start == 0
getNodesBreakNoZero(max, limit, down, start, index, n) ==
    \/ max = 0 /\ start <= index /\ n > 0
    \/ max > 0 /\ down /\ start <= index /\ (n >= limit \/ n = count)

\* the test that ends the walk over the bins in getNodes
getNodesBreak(max, limit, down, start, index, n) ==
    \/ max = 0 /\ start <= index /\ (n > 0 \/ start = 0)
    \/ max > 0 /\ down /\ start <= index /\ (n >= limit \/ n = count \/ start = 0)

\* Kademlia.getNodes(target, max): the nodes found, each with the bin and the
\* position it was read from; steps counts the rounds of the loop, panic
\* tells a read outside buckets
getNodes(target, max) ==
    LET bin == proximityBin(target)
        near == bin >= proxLimit
        index == IF near THEN proxLimit ELSE bin
        limit == IF max = 0 THEN 1000 ELSE max
        RECURSIVE walk(_, _, _, _, _)
        walk(start, down, n, nodes, steps) ==
            IF start \notin 0 .. MaxProx
            THEN [nodes |-> nodes, steps |-> steps, panic |-> TRUE]
            ELSE LET ns == pushBucket(nodes, start, limit, target)
                     m == n + Len(buckets[start])
                     done == [nodes |-> ns, steps |-> steps + 1, panic |-> FALSE]
                 IN IF getNodesBreak(max, limit, down, start, index, m) THEN done
                    ELSE IF down THEN walk(start - 1, down, m, ns, steps + 1)
                    ELSE IF start = MaxProx
                         THEN IF index = 0 THEN done
                              ELSE walk(index - 1, TRUE, m, ns, steps + 1)
                    ELSE walk(start + 1, down, m, ns, steps + 1)
    IN walk(IF near THEN MaxProx ELSE bin, near, 0, <<>>, 0)

\* Kademlia.GetNodes(target, max)
GetNodes(target, max) == getNodes(target, max).nodes

\* the peers that connect: one address in every bin, and a second one in bin 0
Peers == {2 ^ i : i \in 0 .. AddrBits - 1} \cup {2 ^ (AddrBits - 1) + 1}

\* the targets looked up: the own address and the addresses of the peers
Targets == {addr} \cup Peers

\* the LastActive() values worstNode may read from the nodes of a bin
lastActives(nodes) == [1 .. Len(nodes) -> Times]

\* the indexes worstNode may return for a bin, over all LastActive() values
worstNodes(nodes) == {worstNode(la) : la \in lastActives(nodes)}

KadAdd ==
    \E node \in Peers : \E worst \in worstNodes(buckets[proximityBin(node)]) :
        AddNode(node, worst)

KadRemove == \E node \in Peers : RemoveNode(node)

\* ------------------------------------------------------------ bzz protocol

\* bzz protocol message codes
statusMsg == 0
storeRequestMsg == 1
retrieveRequestMsg == 2
peersMsg == 3

Version == 0
NetworkId == 0
ProtocolMaxMsgSize == 10 * 1024 * 1024

\* the frame sizes tried: empty, the largest accepted, one byte more
Sizes == {0, ProtocolMaxMsgSize, ProtocolMaxMsgSize + 1}

\* what rw.ReadMsg() may return: an error, or a frame with its code and size,
\* whether its payload decodes, and the fields of the payload that are tested
\* (version and networkId of a status, a nil Key of a retrieveRequest);
\* hashOk tells whether the SData of a storeRequest hashes to its Key, which
\* handle does not look at
ReadResults ==
    [readErr : {TRUE}, code : {statusMsg}, size : {0}, decodes : {FALSE},
     version : {Version}, networkId : {NetworkId}, keyNil : {FALSE}, hashOk : {TRUE}]
    \cup
    [readErr : {FALSE}, code : {statusMsg}, size : Sizes, decodes : BOOLEAN,
     version : {Version, Version + 1}, networkId : {NetworkId, NetworkId + 1},
     keyNil : {FALSE}, hashOk : {TRUE}]
    \cup
    [readErr : {FALSE}, code : {storeRequestMsg}, size : Sizes, decodes : BOOLEAN,
     version : {Version}, networkId : {NetworkId}, keyNil : {FALSE}, hashOk : BOOLEAN]
    \cup
    [readErr : {FALSE}, code : {retrieveRequestMsg, peersMsg, peersMsg + 1},
     size : Sizes, decodes : BOOLEAN, version : {Version}, networkId : {NetworkId},
     keyNil : BOOLEAN, hashOk : {TRUE}]

\* no ReadMsg yet
noMsg ==
    [readErr |-> FALSE, code |-> -1, size |-> 0, decodes |-> FALSE,
     version |-> Version, networkId |-> NetworkId, keyNil |-> FALSE, hashOk |-> TRUE]

\* handleStatus without its test of the version
statusErrorNoVersion(m) ==
    IF m.readErr THEN "read error"
    ELSE IF m.code # statusMsg THEN "ErrNoStatusMsg"
    ELSE IF m.size > ProtocolMaxMsgSize THEN "ErrMsgTooLarge"
    ELSE IF ~m.decodes THEN "ErrDecode"
    ELSE IF m.networkId # NetworkId THEN "ErrNetworkIdMismatch"
    ELSE "nil"

\* handleStatus testing the version before the network id
statusErrorVersionFirst(m) ==
    IF m.readErr THEN "read error"
    ELSE IF m.code # statusMsg THEN "ErrNoStatusMsg"
    ELSE IF m.size > ProtocolMaxMsgSize THEN "ErrMsgTooLarge"
    ELSE IF ~m.decodes THEN "ErrDecode"
    ELSE IF Version # m.version THEN "ErrVersionMismatch"
    ELSE IF m.networkId # NetworkId THEN "ErrNetworkIdMismatch"
    ELSE "nil"

\* the error handleStatus returns for what ReadMsg gave it, "nil" if none
statusError(m) ==
    IF m.readErr THEN "read error"
    ELSE IF m.code # statusMsg THEN "ErrNoStatusMsg"
    ELSE IF m.size > ProtocolMaxMsgSize THEN "ErrMsgTooLarge"
    ELSE IF ~m.decodes THEN "ErrDecode"
    ELSE IF m.networkId # NetworkId THEN "ErrNetworkIdMismatch"
    ELSE IF Version # m.version THEN "ErrVersionMismatch"
    ELSE "nil"

\* handle without its case statusMsg: a status falls to the default case
handleErrorNoExtra(m) ==
    IF m.readErr THEN "read error"
    ELSE IF m.size > ProtocolMaxMsgSize THEN "ErrMsgTooLarge"
    ELSE IF m.code = storeRequestMsg THEN (IF ~m.decodes THEN "ErrDecode" ELSE "nil")
    ELSE IF m.code = retrieveRequestMsg
         THEN (IF ~m.decodes \/ m.keyNil THEN "ErrDecode" ELSE "nil")
    ELSE IF m.code = peersMsg THEN (IF ~m.decodes THEN "ErrDecode" ELSE "nil")
    ELSE "ErrInvalidMsgCode"

\* handle returning an error for a storeRequest whose data does not hash to its key
handleErrorHashChecked(m) ==
    IF m.readErr THEN "read error"
    ELSE IF m.size > ProtocolMaxMsgSize THEN "ErrMsgTooLarge"
    ELSE IF m.code = statusMsg THEN "ErrExtraStatusMsg"
    ELSE IF m.code = storeRequestMsg
         THEN (IF ~m.decodes \/ ~m.hashOk THEN "ErrDecode" ELSE "nil")
    ELSE IF m.code = retrieveRequestMsg
         THEN (IF ~m.decodes \/ m.keyNil THEN "ErrDecode" ELSE "nil")
    ELSE IF m.code = peersMsg THEN (IF ~m.decodes THEN "ErrDecode" ELSE "nil")
    ELSE "ErrInvalidMsgCode"

\* handle testing msg.Size >= ProtocolMaxMsgSize
handleErrorSizeOff(m) ==
    IF m.readErr THEN "read error"
    ELSE IF m.size >= ProtocolMaxMsgSize THEN "ErrMsgTooLarge"
    ELSE IF m.code = statusMsg THEN "ErrExtraStatusMsg"
    ELSE IF m.code = storeRequestMsg THEN (IF ~m.decodes THEN "ErrDecode" ELSE "nil")
    ELSE IF m.code = retrieveRequestMsg
         THEN (IF ~m.decodes \/ m.keyNil THEN "ErrDecode" ELSE "nil")
    ELSE IF m.code = peersMsg THEN (IF ~m.decodes THEN "ErrDecode" ELSE "nil")
    ELSE "ErrInvalidMsgCode"

\* the error handle returns for what ReadMsg gave it, "nil" if none
handleError(m) ==
    IF m.readErr THEN "read error"
    ELSE IF m.size > ProtocolMaxMsgSize THEN "ErrMsgTooLarge"
    ELSE IF m.code = statusMsg THEN "ErrExtraStatusMsg"
    ELSE IF m.code = storeRequestMsg THEN (IF ~m.decodes THEN "ErrDecode" ELSE "nil")
    ELSE IF m.code = retrieveRequestMsg
         THEN (IF ~m.decodes \/ m.keyNil THEN "ErrDecode" ELSE "nil")
    ELSE IF m.code = peersMsg THEN (IF ~m.decodes THEN "ErrDecode" ELSE "nil")
    ELSE "ErrInvalidMsgCode"

\* runBzzProtocol up to the call of handleStatus
BzzInit ==
    /\ pc = "handleStatus"
    /\ err = "nil"
    /\ written = <<>>
    /\ first = noMsg
    /\ msg = noMsg
    /\ dispatched = -1
    /\ addPeerCalls = 0
    /\ removePeerCalls = 0
    /\ quitC = "open"

\* handleStatus, first half: p2p.Send of the local status, which may fail
SendStatus(ok) ==
    /\ pc = "handleStatus"
    /\ IF ok
       THEN /\ written' = Append(written, statusMsg)
            /\ pc' = "readStatus"
            /\ err' = err
       ELSE /\ written' = written
            /\ pc' = "done"
            /\ err' = "send error"
    /\ UNCHANGED <<first, msg, dispatched, addPeerCalls, removePeerCalls, quitC>>

\* handleStatus, second half: read and check the remote status, then addPeer
ReadStatus(m) ==
    /\ pc = "readStatus"
    /\ first' = m
    /\ IF statusError(m) = "nil"
       THEN /\ addPeerCalls' = addPeerCalls + 1
            /\ pc' = "handle"
            /\ err' = err
       ELSE /\ addPeerCalls' = addPeerCalls
            /\ pc' = "done"
            /\ err' = statusError(m)
    /\ UNCHANGED <<written, msg, dispatched, removePeerCalls, quitC>>

\* the loop of runBzzProtocol without its break: after an error of handle the
\* peer is removed and the loop goes on
HandleNoBreak(m) ==
    /\ pc = "handle"
    /\ msg' = m
    /\ IF handleError(m) = "nil"
       THEN /\ dispatched' = m.code
            /\ UNCHANGED <<pc, err, removePeerCalls, quitC>>
       ELSE /\ dispatched' = -1
            /\ removePeerCalls' = 1
            /\ pc' = pc
            /\ err' = handleError(m)
            /\ quitC' = quitC
    /\ UNCHANGED <<written, first, addPeerCalls>>

\* the loop of runBzzProtocol without its call of hive.removePeer
HandleNoRemove(m) ==
    /\ pc = "handle"
    /\ msg' = m
    /\ IF handleError(m) = "nil"
       THEN /\ dispatched' = m.code
            /\ UNCHANGED <<pc, err, removePeerCalls, quitC>>
       ELSE /\ dispatched' = -1
            /\ removePeerCalls' = removePeerCalls
            /\ pc' = "done"
            /\ err' = handleError(m)
            /\ quitC' = "closed"
    /\ UNCHANGED <<written, first, addPeerCalls>>

\* one round of the loop of runBzzProtocol: handle, and on its error
\* removePeer, break and close(quitC)
Handle(m) ==
    /\ pc = "handle"
    /\ msg' = m
    /\ IF handleError(m) = "nil"
       THEN /\ dispatched' = m.code
            /\ UNCHANGED <<pc, err, removePeerCalls, quitC>>
       ELSE /\ dispatched' = -1
            /\ removePeerCalls' = removePeerCalls + 1
            /\ pc' = "done"
            /\ err' = handleError(m)
            /\ quitC' = "closed"
    /\ UNCHANGED <<written, first, addPeerCalls>>

BzzSend == \E ok \in BOOLEAN : SendStatus(ok)

BzzReadStatus == \E m \in ReadResults : ReadStatus(m)

BzzHandle == \E m \in ReadResults : Handle(m)

\* -------------------------------------------------------- storeRequestLoop

\* number of chunk keys
MaxChunk == 2

\* the number of entries read from one iterator (n = 100 in the source), scaled down
BatchSize == 2

\* bzzProtocol.addrKey(): the first half of the database keys of this session's peer
addrKey == 1

\* the first half of the database keys of another peer, sorted after addrKey
otherKey == 2

\* chunk keys, none of them all zero bytes
Chunks == 1 .. MaxChunk

\* the database key peerKey || chunkKey, ordered as leveldb orders byte strings
dbKey(p, c) == p * (MaxChunk + 1) + c

\* key[:32]
keyPeer(k) == k \div (MaxChunk + 1)

\* key[32:]
keyChunk(k) == k % (MaxChunk + 1)

\* storeRequestLoop's start: addrKey followed by zero bytes
startKey == dbKey(addrKey, 0)

\* it.Key() of an iterator that is not valid: the empty slice
noKey == -1

OwnKeys == {dbKey(addrKey, c) : c \in Chunks}

OtherKeys == {dbKey(otherKey, c) : c \in Chunks}

\* the position of an iterator over keys after Seek(k): the first key >= k
itSeek(keys, k) ==
    LET ge == {x \in keys : x >= k}
    IN IF ge = {} THEN noKey ELSE CHOOSE x \in ge : \A y \in ge : x <= y

\* the iterator after Next()
itNext(i) ==
    [keys |-> i.keys,
     pos |-> IF i.pos = noKey THEN noKey ELSE itSeek(i.keys, i.pos + 1)]

\* the sequences that hold every element of S once
Perms(S) == {q \in [1 .. Cardinality(S) -> S] : \A x \in S : \E i \in DOMAIN q : q[i] = x}

\* a session with no entry in the database, before its storeRequestLoop has run
LoopInit ==
    /\ requestDb = {}
    /\ dbStore = {}
    /\ key = startKey
    /\ nLeft = 0
    /\ it = [keys |-> {}, pos |-> noKey]
    /\ loop = "running"
    /\ enqueued = <<>>
    /\ stored = <<>>

\* a session of a peer for which the database may hold entries of earlier
\* sessions, next to those of another peer, with some of the chunks in the store
LoopInitAny ==
    /\ requestDb \in SUBSET (OwnKeys \cup OtherKeys)
    /\ dbStore \in SUBSET Chunks
    /\ key = startKey
    /\ nLeft = 0
    /\ it = [keys |-> {}, pos |-> noKey]
    /\ loop = "running"
    /\ enqueued \in Perms({keyChunk(k) : k \in requestDb \cap OwnKeys})
    /\ stored = <<>>

\* storeRequestLoop with n == 0: a new iterator, Seek(key); if it is not valid
\* sleep and continue, else key = it.Key() and n is set
LoopSeek ==
    /\ loop = "running"
    /\ nLeft = 0
    /\ LET pos == itSeek(requestDb, key)
       IN /\ it' = [keys |-> requestDb, pos |-> pos]
          /\ IF pos = noKey
             THEN UNCHANGED <<key, nLeft>>
             ELSE key' = pos /\ nLeft' = BatchSize
    /\ UNCHANGED <<requestDb, dbStore, loop, enqueued, stored>>
    /\ UNCHANGED bzzVars

\* storeRequestLoop at a key of another peer: n = 0 and continue
LoopRangeEnd ==
    /\ loop = "running"
    /\ nLeft > 0
    /\ keyPeer(key) # addrKey
    /\ nLeft' = 0
    /\ UNCHANGED <<requestDb, dbStore, key, it, loop, enqueued, stored>>
    /\ UNCHANGED bzzVars

\* storeRequestLoop at a key of its peer whose chunk dbStore.Get does not
\* find: Delete(key) and continue
LoopMissing ==
    /\ loop = "running"
    /\ nLeft > 0
    /\ keyPeer(key) = addrKey
    /\ keyChunk(key) \notin dbStore
    /\ requestDb' = requestDb \ {key}
    /\ UNCHANGED <<dbStore, key, nLeft, it, loop, enqueued, stored>>
    /\ UNCHANGED bzzVars

\* the sending round of storeRequestLoop without the test of key[:32]
LoopStoreAnyPeer ==
    /\ loop = "running"
    /\ nLeft > 0
    /\ keyChunk(key) \in dbStore
    /\ written' = Append(written, storeRequestMsg)
    /\ stored' = Append(stored, keyChunk(key))
    /\ requestDb' = requestDb \ {key}
    /\ it' = itNext(it)
    /\ IF it'.pos = noKey
       THEN key' = startKey /\ nLeft' = 0
       ELSE key' = it'.pos /\ nLeft' = nLeft - 1
    /\ loop' = IF quitC = "closed" THEN "exited" ELSE "running"
    /\ UNCHANGED <<dbStore, enqueued>>
    /\ UNCHANGED <<pc, err, first, msg, dispatched, addPeerCalls, removePeerCalls, quitC>>

\* storeRequestLoop at a key of its peer whose chunk is found: send the store
\* message, n--, Delete(key), it.Next(), key = it.Key() or start when the
\* iterator is exhausted, and then the test of quitC
LoopStore ==
    /\ loop = "running"
    /\ nLeft > 0
    /\ keyPeer(key) = addrKey
    /\ keyChunk(key) \in dbStore
    /\ written' = Append(written, storeRequestMsg)
    /\ stored' = Append(stored, keyChunk(key))
    /\ requestDb' = requestDb \ {key}
    /\ it' = itNext(it)
    /\ IF it'.pos = noKey
       THEN key' = startKey /\ nLeft' = 0
       ELSE key' = it'.pos /\ nLeft' = nLeft - 1
    /\ loop' = IF quitC = "closed" THEN "exited" ELSE "running"
    /\ UNCHANGED <<dbStore, enqueued>>
    /\ UNCHANGED <<pc, err, first, msg, dispatched, addPeerCalls, removePeerCalls, quitC>>

\* bzzProtocol.storeRequest(key) on this session, which the hive hands out
\* while the peer is registered; every chunk key is put once
storeRequest(c) ==
    /\ pc = "handle"
    /\ c \notin {enqueued[i] : i \in DOMAIN enqueued}
    /\ requestDb' = requestDb \cup {dbKey(addrKey, c)}
    /\ enqueued' = Append(enqueued, c)
    /\ UNCHANGED <<dbStore, key, nLeft, it, loop, stored>>
    /\ UNCHANGED bzzVars

\* storeRequest(key) on the session of the other peer
otherStoreRequest(c) ==
    /\ requestDb' = requestDb \cup {dbKey(otherKey, c)}
    /\ UNCHANGED <<dbStore, key, nLeft, it, loop, enqueued, stored>>
    /\ UNCHANGED bzzVars

\* the storeRequestLoop of the other peer's session deletes one of its keys
otherDelete(c) ==
    /\ dbKey(otherKey, c) \in requestDb
    /\ requestDb' = requestDb \ {dbKey(otherKey, c)}
    /\ UNCHANGED <<dbStore, key, nLeft, it, loop, enqueued, stored>>
    /\ UNCHANGED bzzVars

\* a chunk arrives in the local store
putChunk(c) ==
    /\ c \notin dbStore
    /\ dbStore' = dbStore \cup {c}
    /\ UNCHANGED <<requestDb, key, nLeft, it, loop, enqueued, stored>>
    /\ UNCHANGED bzzVars

\* the frames of the sessions that run next to a storeRequestLoop: a good
\* status, a status of another network, a good storeRequest, a read error
LoopFrames ==
    {m \in ReadResults :
        \/ m.readErr
        \/ /\ m.size = 0
           /\ m.decodes
           /\ m.version = Version
           /\ m.hashOk
           /\ m.code \in {statusMsg, storeRequestMsg}}

LoopReadStatus == \E m \in LoopFrames : ReadStatus(m)

LoopHandle == \E m \in LoopFrames : Handle(m)

StoreRequest == \E c \in Chunks : storeRequest(c)

OtherStoreRequest == \E c \in Chunks : otherStoreRequest(c)

OtherDelete == \E c \in Chunks : otherDelete(c)

PutChunk == \E c \in Chunks : putChunk(c)

\* ------------------------------------------------------------ node records

\* the peers that connect to a table with node records: one in the last bin,
\* one in bin 0
DbPeers == {1, 2 ^ (AddrBits - 1)}

\* the addresses of the node records merged with AddNodeRecords
RecordAddrs == {1, 2}

\* the longest list of node records given to AddNodeRecords
MaxRecords == 2

\* the lists of node records given to AddNodeRecords
RecordLists == UNION {[1 .. k -> RecordAddrs] : k \in 1 .. MaxRecords}

\* a nodeDB without records: make([][]*NodeRecord, 8*len(self.addr))
emptyDB == [i \in 0 .. AddrBits - 1 |-> <<>>]

\* the address of another table
foreignAddr == 2 ^ AddrBits - 1

\* no file at path, a file that is no JSON of a kadDB, the kadDB of a snapshot
noFile == [kind |-> "none", Address |-> addr, Nodes |-> emptyDB]
badFile == [kind |-> "bad", Address |-> addr, Nodes |-> emptyDB]
snapshot(a, nodes) == [kind |-> "kadDB", Address |-> a, Nodes |-> nodes]

\* the files found at path before the first Save
Files ==
    {noFile, badFile}
    \cup {snapshot(a, nodes) : a \in {addr, foreignAddr},
                               nodes \in {emptyDB, [emptyDB EXCEPT ![AddrBits - 1] = <<1>>],
                                         [emptyDB EXCEPT ![AddrBits - 2] = <<2>>]}}

\* Kademlia.Start: the node records of a new table
DbInit ==
    /\ nodeDB = emptyDB
    /\ nodeIndex = {}
    /\ currentMaxBucketSize = 0
    /\ recording = {}
    /\ GetNode = FALSE
    /\ notified = <<>>
    /\ file = noFile
    /\ loadErr = "none"

\* a started table as New leaves it (no callback, currentMaxBucketSize 0), or
\* one whose owner set the callback and currentMaxBucketSize
DbInitAny ==
    /\ nodeDB = emptyDB
    /\ nodeIndex = {}
    /\ GetNode \in BOOLEAN
    /\ currentMaxBucketSize = (IF GetNode THEN BucketSize ELSE 0)
    /\ recording = {}
    /\ notified = <<>>
    /\ file = noFile
    /\ loadErr = "none"

\* a started table next to any file
DbInitFile ==
    /\ nodeDB = emptyDB
    /\ nodeIndex = {}
    /\ currentMaxBucketSize = 0
    /\ recording = {}
    /\ GetNode = FALSE
    /\ notified = <<>>
    /\ file \in Files
    /\ loadErr = "none"

\* AddNode with the start of its goroutine
AddNodeGo(node, worst) ==
    /\ AddNode(node, worst)
    /\ recording' = recording \cup {node}
    /\ notified' = <<>>
    /\ UNCHANGED <<nodeDB, nodeIndex, currentMaxBucketSize, GetNode, file, loadErr>>

\* the goroutine of AddNode: the record of node is found, or made and appended
\* to the row of the node's bin
recordNode(node) ==
    /\ node \in recording
    /\ recording' = recording \ {node}
    /\ IF node \in nodeIndex
       THEN UNCHANGED <<nodeDB, nodeIndex>>
       ELSE /\ nodeIndex' = nodeIndex \cup {node}
            /\ nodeDB' = [nodeDB EXCEPT ![proximityBin(node)] = Append(@, node)]
    /\ UNCHANGED <<currentMaxBucketSize, GetNode, notified, file, loadErr>>
    /\ UNCHANGED kadVars

\* RemoveNode that starts GetNode only when the bin was left empty
RemoveNodeGoIfEmpty(node) ==
    /\ RemoveNode(node)
    /\ notified' = IF GetNode /\ buckets'[proximityBin(node)] = <<>>
                   THEN <<proximityBin(node)>> ELSE <<>>
    /\ UNCHANGED <<nodeDB, nodeIndex, currentMaxBucketSize, recording, GetNode, file, loadErr>>

\* RemoveNode with its go self.GetNode(index)
RemoveNodeGo(node) ==
    /\ RemoveNode(node)
    /\ notified' = IF GetNode THEN <<proximityBin(node)>> ELSE <<>>
    /\ UNCHANGED <<nodeDB, nodeIndex, currentMaxBucketSize, recording, GetNode, file, loadErr>>

\* one round of the loop of AddNodeRecords without its test of nodeIndex
addNodeRecordAlways(st, a) ==
    [nodeIndex |-> st.nodeIndex \cup {a},
     nodeDB |-> [st.nodeDB EXCEPT ![proximityBin(a)] = Append(@, a)]]

\* one round of the loop of AddNodeRecords, for the record of address a
addNodeRecord(st, a) ==
    IF a \in st.nodeIndex THEN st
    ELSE [nodeIndex |-> st.nodeIndex \cup {a},
          nodeDB |-> [st.nodeDB EXCEPT ![proximityBin(a)] = Append(@, a)]]

\* the loop of AddNodeRecords over nrs
addNodeRecords(st, nrs) ==
    LET RECURSIVE go(_, _)
        go(acc, i) == IF i > Len(nrs) THEN acc ELSE go(addNodeRecord(acc, nrs[i]), i + 1)
    IN go(st, 1)

\* Kademlia.AddNodeRecords(nrs)
AddNodeRecords(nrs) ==
    LET st == addNodeRecords([nodeIndex |-> nodeIndex, nodeDB |-> nodeDB], nrs)
    IN /\ UNCHANGED kadVars
       /\ UNCHANGED <<currentMaxBucketSize, recording, GetNode, notified, file, loadErr>>
       /\ nodeIndex' = st.nodeIndex
       /\ nodeDB' = st.nodeDB

\* Kademlia.getNodeRecord(row, col): 0 stands for nil
getNodeRecord(row, col) ==
    IF row >= 0 /\ row < AddrBits /\ col >= 0 /\ col < Len(nodeDB[row])
    THEN nodeDB[row][col + 1]
    ELSE 0

\* nrs = append(nrs): the slice with nothing appended
appendNone(nrs, nr) == nrs

\* Kademlia.GetNodeRecords(max)
GetNodeRecords(max) ==
    LET RECURSIVE bins(_, _, _)
        bins(nrs, round, i) ==
            IF i > MaxProx THEN nrs
            ELSE IF Len(buckets[i]) + round < currentMaxBucketSize
                    /\ getNodeRecord(i, round) # 0
                 THEN bins(appendNone(nrs, getNodeRecord(i, round)), round, i + 1)
                 ELSE bins(nrs, round, i + 1)
        RECURSIVE rounds(_, _, _)
        rounds(nrs, round, m) ==
            IF m > 0 THEN rounds(bins(nrs, round, 0), round + 1, m - 1) ELSE nrs
    IN rounds(<<>>, 0, max)

\* Load without its comparison of the addresses
loadErrorAnyAddress(f) ==
    IF f.kind = "none" THEN "read error"
    ELSE IF f.kind = "bad" THEN "unmarshal error"
    ELSE "nil"

\* the error Load returns for the file f
loadError(f) ==
    IF f.kind = "none" THEN "read error"
    ELSE IF f.kind = "bad" THEN "unmarshal error"
    ELSE IF addr # f.Address THEN "address mismatch"
    ELSE "nil"

\* Kademlia.Load(path): nodeDB is assigned before the addresses are compared
Load ==
    /\ loadErr' = loadError(file)
    /\ nodeDB' = IF file.kind = "kadDB" THEN file.Nodes ELSE nodeDB
    /\ UNCHANGED <<nodeIndex, currentMaxBucketSize, recording, GetNode, notified, file>>
    /\ UNCHANGED kadVars

\* Kademlia.Save(path); ok tells whether ioutil.WriteFile succeeded
Save(ok) ==
    /\ file' = IF ok THEN snapshot(addr, nodeDB) ELSE file
    /\ UNCHANGED <<nodeDB, nodeIndex, currentMaxBucketSize, recording, GetNode, notified, loadErr>>
    /\ UNCHANGED kadVars

DbAdd ==
    \E node \in DbPeers : \E worst \in worstNodes(buckets[proximityBin(node)]) :
        AddNodeGo(node, worst)

DbRecord == \E node \in DbPeers : recordNode(node)

DbRemove == \E node \in DbPeers : RemoveNodeGo(node)

DbAddRecords == \E nrs \in RecordLists : AddNodeRecords(nrs)

DbSave == \E ok \in BOOLEAN : Save(ok)

\* ------------------------------------------------------ calls of proximity

\* no call
noCall == [op |-> "none", t |-> 0, a |-> 0, b |-> 0, cmp |-> 0, ta |-> 0, tb |-> 0, at |-> 0, bin |-> 0]

ProxInit == call = noCall

\* the arguments of a call: a target t and two addresses a and b
ProxInitAny ==
    call \in [op : {"args"}, t : Address, a : Address, b : Address,
              cmp : {0}, ta : {0}, tb : {0}, at : {0}, bin : {0}]

\* proxCmp(t, a, b), proximity(t, a), proximity(t, b), proximity(a, t) and
\* the bin of a
ProxCall ==
    /\ call.op = "args"
    /\ call' = [call EXCEPT !.op = "done",
                            !.cmp = proxCmp(call.t, call.a, call.b),
                            !.ta = proximity(call.t, call.a),
                            !.tb = proximity(call.t, call.b),
                            !.at = proximity(call.a, call.t),
                            !.bin = proximityBin(call.a)]

\* ------------------------------------------------------------ Start and Stop

\* a running table with the address addr
LifeInit ==
    /\ kadQuitC = "open"
    /\ selfAddr = addr

\* Kademlia.Start(a): nothing when quitC is set; else the address is set and
\* buckets, nodeDB, nodeIndex and quitC are made anew
Start(a) ==
    /\ last' = [op |-> "Start", node |-> a, index |-> 0, proxLimit |-> proxLimit, len |-> 0]
    /\ IF kadQuitC # "nil"
       THEN UNCHANGED <<buckets, nodeDB, nodeIndex, kadQuitC, selfAddr>>
       ELSE /\ selfAddr' = a
            /\ buckets' = [i \in 0 .. MaxProx |-> <<>>]
            /\ nodeDB' = emptyDB
            /\ nodeIndex' = {}
            /\ kadQuitC' = "open"
    /\ UNCHANGED <<proxLimit, proxSize, count>>
    /\ UNCHANGED <<currentMaxBucketSize, recording, GetNode, notified, file, loadErr>>

\* Kademlia.Stop(path): nothing when quitC is nil; else quitC is closed and
\* set to nil and, with a path, the node records are saved; ok tells whether
\* ioutil.WriteFile succeeded
Stop(hasPath, ok) ==
    /\ last' = [op |-> "Stop", node |-> selfAddr, index |-> 0, proxLimit |-> proxLimit, len |-> 0]
    /\ IF kadQuitC = "nil"
       THEN UNCHANGED <<kadQuitC, file>>
       ELSE /\ kadQuitC' = "nil"
            /\ file' = IF hasPath /\ ok THEN snapshot(selfAddr, nodeDB) ELSE file
    /\ UNCHANGED <<buckets, proxLimit, proxSize, count, selfAddr>>
    /\ UNCHANGED <<nodeDB, nodeIndex, currentMaxBucketSize, recording, GetNode, notified, loadErr>>

\* Start with the table's address or, on a running table, with another one
LifeStart == \E a \in {addr, foreignAddr} : (a = addr \/ kadQuitC # "nil") /\ Start(a)

LifeStop == \E hasPath \in BOOLEAN : \E ok \in BOOLEAN : Stop(hasPath, ok)

\* peers are added and removed while the table runs
LifeAdd == kadQuitC = "open" /\ DbAdd

LifeRemove == kadQuitC = "open" /\ DbRemove

\* ------------------------------------------------- setTimeout and getTimeout

\* nanoseconds in a second: time.Time.UnixNano and time.Unix
NanosPerSecond == 1000000000

\* a *time.Time: nil, or the time nsec nanoseconds after second sec of the epoch
nilTime == [nil |-> TRUE, sec |-> 0, nsec |-> 0]

\* time.Unix(sec, nsec)
Unix(sec, nsec) == [nil |-> FALSE, sec |-> sec, nsec |-> nsec]

\* t.UnixNano()
UnixNano(t) == t.sec * NanosPerSecond + t.nsec

\* the times given to setTimeout
TimeValues == {Unix(sec, nsec) : sec \in 0 .. 1, nsec \in Times}

\* the values of the field Timeout of a message: 0 or the UnixNano of a time
WireTimeouts == {0} \cup {UnixNano(t) : t \in TimeValues}

\* the messages that have the methods: retrieveRequestMsgData, peersMsgData
TimeoutMsgs == {retrieveRequestMsg, peersMsg}

\* a message as it is built or decoded: the field timeout is nil
MsgInit ==
    /\ msgData = [code |-> retrieveRequestMsg, Timeout |-> 0, timeout |-> nilTime]
    /\ timeCall = [op |-> "none", set |-> FALSE, t |-> nilTime, ret |-> nilTime]

MsgInitAny ==
    /\ msgData \in [code : TimeoutMsgs, Timeout : WireTimeouts, timeout : {nilTime}]
    /\ timeCall = [op |-> "none", set |-> FALSE, t |-> nilTime, ret |-> nilTime]

\* what the caller's message data is after setTimeout worked on self: the
\* receiver is a value, self is a copy and data is not changed
setTimeoutByValue(data, self) == data

\* (self) setTimeout(t): self at the return; uint64() of the non-negative
\* UnixNano is the same number
setTimeout(self, t) ==
    [self EXCEPT !.timeout = t,
                 !.Timeout = IF ~t.nil THEN UnixNano(t) ELSE 0]

\* (self) getTimeout(): the pointer returned
getTimeout(self) ==
    IF self.Timeout > 0 /\ self.timeout.nil
    THEN Unix(self.Timeout, 0)
    ELSE nilTime

\* a call msgData.setTimeout(t)
SetTimeout(t) ==
    /\ msgData' = setTimeoutByValue(msgData, setTimeout(msgData, t))
    /\ timeCall' = [op |-> "setTimeout", set |-> TRUE, t |-> t, ret |-> nilTime]

\* a call msgData.getTimeout(); the receiver is a value here too
GetTimeout ==
    /\ timeCall' = [timeCall EXCEPT !.op = "getTimeout", !.ret = getTimeout(msgData)]
    /\ UNCHANGED msgData

MsgSetTimeout == \E t \in {nilTime} \cup TimeValues : SetTimeout(t)

\* ---------------------------------------------------------- specifications

Init == KadInit /\ BzzInit /\ LoopInit /\ DbInit /\ ProxInit /\ LifeInit /\ MsgInit

\* the routing table under AddNode and RemoveNode calls
Next ==
    \/ KadAdd /\ UNCHANGED <<bzzVars, loopVars, dbVars, call, lifeVars, msgVars>>
    \/ KadRemove /\ UNCHANGED <<bzzVars, loopVars, dbVars, call, lifeVars, msgVars>>

Spec == Init /\ [][Next]_vars

\* one session of the bzz protocol
NextBzz ==
    \/ BzzSend /\ UNCHANGED <<kadVars, loopVars, dbVars, call, lifeVars, msgVars>>
    \/ BzzReadStatus /\ UNCHANGED <<kadVars, loopVars, dbVars, call, lifeVars, msgVars>>
    \/ BzzHandle /\ UNCHANGED <<kadVars, loopVars, dbVars, call, lifeVars, msgVars>>

SpecBzz == Init /\ [][NextBzz]_vars

InitStore == KadInit /\ BzzInit /\ LoopInitAny /\ DbInit /\ ProxInit /\ LifeInit /\ MsgInit

\* the steps of the storeRequestLoop goroutine
StoreLoop == (LoopSeek \/ LoopRangeEnd \/ LoopMissing \/ LoopStore) /\ UNCHANGED <<kadVars, dbVars, call, lifeVars, msgVars>>

\* one session with its storeRequestLoop, next to the session of another peer
NextStore ==
    \/ BzzSend /\ UNCHANGED <<kadVars, loopVars, dbVars, call, lifeVars, msgVars>>
    \/ LoopReadStatus /\ UNCHANGED <<kadVars, loopVars, dbVars, call, lifeVars, msgVars>>
    \/ LoopHandle /\ UNCHANGED <<kadVars, loopVars, dbVars, call, lifeVars, msgVars>>
    \/ LoopSeek /\ UNCHANGED <<kadVars, dbVars, call, lifeVars, msgVars>>
    \/ LoopRangeEnd /\ UNCHANGED <<kadVars, dbVars, call, lifeVars, msgVars>>
    \/ LoopMissing /\ UNCHANGED <<kadVars, dbVars, call, lifeVars, msgVars>>
    \/ LoopStore /\ UNCHANGED <<kadVars, dbVars, call, lifeVars, msgVars>>
    \/ StoreRequest /\ UNCHANGED <<kadVars, dbVars, call, lifeVars, msgVars>>
    \/ OtherStoreRequest /\ UNCHANGED <<kadVars, dbVars, call, lifeVars, msgVars>>
    \/ OtherDelete /\ UNCHANGED <<kadVars, dbVars, call, lifeVars, msgVars>>
    \/ PutChunk /\ UNCHANGED <<kadVars, dbVars, call, lifeVars, msgVars>>

\* the goroutine of storeRequestLoop is scheduled as long as it can take a step
SpecStore == InitStore /\ [][NextStore]_vars /\ WF_vars(StoreLoop)

InitDB == KadInit /\ BzzInit /\ LoopInit /\ DbInitAny /\ ProxInit /\ LifeInit /\ MsgInit

\* the routing table with its node records: AddNode, its goroutine,
\* RemoveNode and AddNodeRecords
NextDB ==
    \/ DbAdd /\ UNCHANGED <<bzzVars, loopVars, call, lifeVars, msgVars>>
    \/ DbRecord /\ UNCHANGED <<bzzVars, loopVars, call, lifeVars, msgVars>>
    \/ DbRemove /\ UNCHANGED <<bzzVars, loopVars, call, lifeVars, msgVars>>
    \/ DbAddRecords /\ UNCHANGED <<bzzVars, loopVars, call, lifeVars, msgVars>>

SpecDB == InitDB /\ [][NextDB]_vars

InitLoad == KadInit /\ BzzInit /\ LoopInit /\ DbInitFile /\ ProxInit /\ LifeInit /\ MsgInit

\* the node records and their file: AddNodeRecords, Save and Load
NextLoad ==
    \/ DbAddRecords /\ UNCHANGED <<bzzVars, loopVars, call, lifeVars, msgVars>>
    \/ DbSave /\ UNCHANGED <<bzzVars, loopVars, call, lifeVars, msgVars>>
    \/ Load /\ UNCHANGED <<bzzVars, loopVars, call, lifeVars, msgVars>>

SpecLoad == InitLoad /\ [][NextLoad]_vars

InitProx == KadInit /\ BzzInit /\ LoopInit /\ DbInit /\ ProxInitAny /\ LifeInit /\ MsgInit

\* calls of proxCmp, proximity and proximityBin on any addresses
NextProx == ProxCall /\ UNCHANGED <<kadVars, bzzVars, loopVars, dbVars, lifeVars, msgVars>>

SpecProx == InitProx /\ [][NextProx]_vars

InitLife == KadInit /\ BzzInit /\ LoopInit /\ DbInit /\ ProxInit /\ LifeInit /\ MsgInit

\* the table under Start and Stop, next to AddNode with its goroutine and
\* RemoveNode
NextLife ==
    \/ LifeStart /\ UNCHANGED <<bzzVars, loopVars, call, msgVars>>
    \/ LifeStop /\ UNCHANGED <<bzzVars, loopVars, call, msgVars>>
    \/ LifeAdd /\ UNCHANGED <<bzzVars, loopVars, call, lifeVars, msgVars>>
    \/ DbRecord /\ UNCHANGED <<bzzVars, loopVars, call, lifeVars, msgVars>>
    \/ LifeRemove /\ UNCHANGED <<bzzVars, loopVars, call, lifeVars, msgVars>>

SpecLife == InitLife /\ [][NextLife]_vars

InitTimeout == KadInit /\ BzzInit /\ LoopInit /\ DbInit /\ ProxInit /\ LifeInit /\ MsgInitAny

\* calls of setTimeout and getTimeout on one message
NextTimeout ==
    \/ MsgSetTimeout /\ UNCHANGED <<kadVars, bzzVars, loopVars, dbVars, call, lifeVars>>
    \/ GetTimeout /\ UNCHANGED <<kadVars, bzzVars, loopVars, dbVars, call, lifeVars>>

SpecTimeout == InitTimeout /\ [][NextTimeout]_vars

\* ------------------------------------------------------------------ claims

\* every entry of the buckets, as GetNodes names them
entries ==
    UNION {{[addr |-> buckets[b][p], bin |-> b, pos |-> p] : p \in 1 .. Len(buckets[b])} :
              b \in 0 .. MaxProx}

Range(f) == {f[i] : i \in DOMAIN f}

Min2(a, b) == IF a < b THEN a ELSE b

\* C1: every bucket with index in [0, proxLimit) is non-empty
C1_BinsBelowLimitNonEmpty ==
    \A i \in 0 .. MaxProx : i < proxLimit => buckets[i] # <<>>

\* C2: the peers in the buckets with index >= proxLimit number at most
\* MaxProxBinSize, unless bucket[proxLimit] is empty or proxLimit reached MaxProx
C2_NearZoneBounded ==
    \/ sumLen(buckets, proxLimit, MaxProx) <= MaxProxBinSize
    \/ proxLimit >= MaxProx
    \/ buckets[proxLimit] = <<>>

\* C3: proxSize is the number of peers in the buckets with index >= proxLimit
C3_ProxSizeCounts == proxSize = sumLen(buckets, proxLimit, MaxProx)

\* C4: every bucket holds at most BucketSize peers
C4_BucketBounded == \A i \in 0 .. MaxProx : Len(buckets[i]) <= BucketSize

\* an AddNode into a full bin has acted
C4_Witness ==
    /\ last.op = "AddNode"
    /\ last.len = BucketSize
    /\ Len(buckets[last.index]) = BucketSize

\* C5: AddNode into a bin with fewer than BucketSize peers appends the peer;
\* AddNode into a full bin replaces exactly an entry with the minimum
\* last-active time and leaves every other entry and every other bin unchanged
C5_ReplacesLeastActive ==
    [][\A node \in Peers :
          LET index == proximityBin(node)
          IN \A worst \in worstNodes(buckets[index]) :
                AddNode(node, worst) =>
                    IF Len(buckets[index]) < BucketSize
                    THEN buckets' = [buckets EXCEPT ![index] = Append(@, node)]
                    ELSE \A la \in lastActives(buckets[index]) :
                            worstNode(la) = worst =>
                                \E i \in 1 .. Len(la) :
                                    /\ \A j \in 1 .. Len(la) : la[i] <= la[j]
                                    /\ buckets' = [buckets EXCEPT ![index][i] = node]]_vars

\* an AddNode into a full bin replaced the entry at the last position, the
\* least active one, and not the first
C5_Witness ==
    /\ last.op = "AddNode"
    /\ last.len = BucketSize
    /\ buckets[last.index][BucketSize] = last.node
    /\ buckets[last.index][1] # last.node

\* C6: a RemoveNode that removes the last peer of a bin r < proxLimit sets
\* proxLimit to r and adds to proxSize the sizes of the bins strictly
\* between r and the old proxLimit
C6_RemoveLowersLimit ==
    [][\A node \in Peers :
          LET r == proximityBin(node)
          IN (RemoveNode(node) /\ r < proxLimit /\ buckets[r] # <<>> /\ buckets'[r] = <<>>)
             => /\ proxLimit' = r
                /\ proxSize' = proxSize + sumLen(buckets, r + 1, proxLimit - 1)]_vars

\* a RemoveNode emptied a bin below proxLimit, with peers in the bins between
C6_Witness ==
    /\ last.op = "RemoveNode"
    /\ last.len > 0
    /\ buckets[last.index] = <<>>
    /\ last.index + 1 < last.proxLimit
    /\ sumLen(buckets, last.index + 1, last.proxLimit - 1) > 0
    /\ proxLimit = last.index

\* C7: AddNode never lowers proxLimit; a RemoveNode that leaves all bins below
\* proxLimit non-empty leaves proxLimit unchanged; proxLimit decreases only in
\* a RemoveNode that leaves its bin, below proxLimit, empty
C7_LimitMonotone ==
    [][/\ \A node \in Peers : \A worst \in 1 .. BucketSize :
             AddNode(node, worst) => proxLimit' >= proxLimit
       /\ \A node \in Peers :
             (RemoveNode(node) /\ \A i \in 0 .. MaxProx : i < proxLimit => buckets'[i] # <<>>)
             => proxLimit' = proxLimit
       /\ proxLimit' < proxLimit =>
             \E node \in Peers :
                 /\ RemoveNode(node)
                 /\ proximityBin(node) < proxLimit
                 /\ buckets'[proximityBin(node)] = <<>>]_vars

\* a RemoveNode took a peer from a bin below proxLimit that stays non-empty
C7_Witness ==
    /\ last.op = "RemoveNode"
    /\ last.index < last.proxLimit
    /\ Len(buckets[last.index]) < last.len
    /\ buckets[last.index] # <<>>
    /\ proxLimit = last.proxLimit
    /\ \A i \in 0 .. MaxProx : i < proxLimit => buckets[i] # <<>>

\* C8: GetNodes(target, n) returns at most n peers, strictly ordered by
\* proxCmp(target, ...), ties resolved by insertion order
C8_GetNodesStrictlyOrdered ==
    \A target \in Address : \A n \in 1 .. MaxGet :
        LET r == GetNodes(target, n)
        IN /\ Len(r) <= n
           /\ \A i \in 1 .. Len(r) : \A j \in 1 .. Len(r) :
                 i < j => /\ proxCmp(target, r[i].addr, r[j].addr) < 0
                          /\ (r[i].addr = r[j].addr => r[i].pos < r[j].pos)

\* C9: GetNodes(target, n) returns min(n, number of peers in the buckets)
\* peers, and no peer left out is strictly closer to target than one returned
C9_GetNodesNearest ==
    \A target \in Address : \A n \in 1 .. MaxGet :
        LET r == GetNodes(target, n)
        IN /\ Len(r) = Min2(n, sumLen(buckets, 0, MaxProx))
           /\ \A out \in entries \ Range(r) : \A in \in Range(r) :
                 ~(Xor(out.addr, target) < Xor(in.addr, target))

\* the frame is a status of size <= MaxMsgSize that decodes and carries the
\* local version and the local network id
goodStatus(m) ==
    /\ ~m.readErr
    /\ m.code = statusMsg
    /\ m.size <= ProtocolMaxMsgSize
    /\ m.decodes
    /\ m.version = Version
    /\ m.networkId = NetworkId

\* C10: the handshake succeeds, and only then is the peer added, if and only
\* if the first frame received is a good status; in every other case (a failed
\* send, a read error) the session ends with an error and the peer is never added
C10_HandshakeIffGoodStatus ==
    /\ pc \in {"handleStatus", "readStatus"} => addPeerCalls = 0 /\ first = noMsg
    /\ pc \in {"handle", "done"} =>
          IF first # noMsg /\ goodStatus(first)
          THEN addPeerCalls = 1 /\ (pc = "handle" => err = "nil")
          ELSE pc = "done" /\ err # "nil" /\ addPeerCalls = 0 /\ dispatched = -1

\* a handshake succeeded on a status frame of the largest size
C10_Witness ==
    /\ pc = "handle"
    /\ goodStatus(first)
    /\ first.size = ProtocolMaxMsgSize
    /\ addPeerCalls = 1

\* the frame is a status whose payload decodes, so that it carries a version
\* and a network id
decodedStatus(m) ==
    /\ ~m.readErr
    /\ m.code = statusMsg
    /\ m.decodes

\* C11 as stated: a handshake status whose network id differs from the local
\* one ends the session with ErrNetworkIdMismatch, whatever its version; one
\* with the local network id and another version ends it with ErrVersionMismatch
C11_MismatchErrors ==
    (first # noMsg /\ decodedStatus(first)) =>
        /\ first.networkId # NetworkId
              => pc = "done" /\ err = "ErrNetworkIdMismatch" /\ addPeerCalls = 0
        /\ (first.networkId = NetworkId /\ first.version # Version)
              => pc = "done" /\ err = "ErrVersionMismatch" /\ addPeerCalls = 0

\* C11 amended: the same for a handshake status of size <= ProtocolMaxMsgSize
\* (a larger frame ends the session with ErrMsgTooLarge before it is decoded)
C11_MismatchErrorsSized ==
    (first # noMsg /\ decodedStatus(first) /\ first.size <= ProtocolMaxMsgSize) =>
        /\ first.networkId # NetworkId
              => pc = "done" /\ err = "ErrNetworkIdMismatch" /\ addPeerCalls = 0
        /\ (first.networkId = NetworkId /\ first.version # Version)
              => pc = "done" /\ err = "ErrVersionMismatch" /\ addPeerCalls = 0

\* a handshake ended on a status in which both the network id and the version
\* differ from the local ones
C11_Witness ==
    /\ pc = "done"
    /\ decodedStatus(first)
    /\ first.size <= ProtocolMaxMsgSize
    /\ first.networkId # NetworkId
    /\ first.version # Version
    /\ err = "ErrNetworkIdMismatch"

\* C12 as stated: a status received on an ACTIVE session ends the session
\* with ErrExtraStatusMsg, and nothing is dispatched for it
C12_ExtraStatus ==
    (msg # noMsg /\ ~msg.readErr /\ msg.code = statusMsg) =>
        /\ pc = "done"
        /\ err = "ErrExtraStatusMsg"
        /\ dispatched = -1

\* C12 amended: the same for a status frame of size <= ProtocolMaxMsgSize (a
\* larger frame ends the session with ErrMsgTooLarge, whatever its code)
C12_ExtraStatusSized ==
    (msg # noMsg /\ ~msg.readErr /\ msg.code = statusMsg /\ msg.size <= ProtocolMaxMsgSize) =>
        /\ pc = "done"
        /\ err = "ErrExtraStatusMsg"
        /\ dispatched = -1

\* an ACTIVE session ended on a second status, itself a good one
C12_Witness ==
    /\ pc = "done"
    /\ goodStatus(first)
    /\ goodStatus(msg)
    /\ err = "ErrExtraStatusMsg"
    /\ removePeerCalls = 1

\* C14: a message is handed on only by a session whose handshake succeeded,
\* and only a store, retrieve or peers message; once handle returned an error
\* the session has ended: no further ReadMsg, nothing dispatched
C14_DispatchOnlyActive ==
    /\ dispatched # -1 =>
          /\ dispatched \in {storeRequestMsg, retrieveRequestMsg, peersMsg}
          /\ pc = "handle"
          /\ addPeerCalls = 1
          /\ goodStatus(first)
    /\ err # "nil" => pc = "done" /\ dispatched = -1
    /\ pc = "done" => ~ENABLED (BzzSend \/ BzzReadStatus \/ BzzHandle)

\* an ACTIVE session ended on an error of handle
C14_Witness ==
    /\ pc = "done"
    /\ goodStatus(first)
    /\ msg # noMsg
    /\ err = "ErrInvalidMsgCode"
    /\ dispatched = -1

\* the frame is a storeRequest that decodes and whose data does not hash to its key
badHashStore(m) ==
    /\ ~m.readErr
    /\ m.code = storeRequestMsg
    /\ m.decodes
    /\ ~m.hashOk

\* C15 as stated: a decodable storeRequest whose data does not hash to its
\* key, received on an ACTIVE session, leaves the session ACTIVE: no error, and
\* the next message is read and handled
C15_BadHashKeepsSession ==
    (msg # noMsg /\ badHashStore(msg)) =>
        /\ pc = "handle"
        /\ err = "nil"
        /\ removePeerCalls = 0
        /\ ENABLED BzzHandle

\* C15 amended: the same for a storeRequest frame of size <= ProtocolMaxMsgSize
C15_BadHashKeepsSessionSized ==
    (msg # noMsg /\ badHashStore(msg) /\ msg.size <= ProtocolMaxMsgSize) =>
        /\ pc = "handle"
        /\ err = "nil"
        /\ removePeerCalls = 0
        /\ ENABLED BzzHandle

\* an ACTIVE session has read a storeRequest whose data does not hash to its key
C15_Witness ==
    /\ pc = "handle"
    /\ badHashStore(msg)
    /\ msg.size <= ProtocolMaxMsgSize
    /\ dispatched = storeRequestMsg

\* the handshake of the session succeeded
handshakeDone == first # noMsg /\ goodStatus(first)

\* C20: a session that added its peer removes it exactly once when it ends on
\* an error of handle; a session whose handshake failed never calls
\* removePeer; at the end of a session the peer is not left registered
C20_RemovePeerOnce ==
    /\ addPeerCalls <= 1
    /\ removePeerCalls <= addPeerCalls
    /\ pc = "handle" => addPeerCalls = 1 /\ removePeerCalls = 0
    /\ (pc = "done" /\ handshakeDone) => addPeerCalls = 1 /\ removePeerCalls = 1
    /\ (pc = "done" /\ ~handshakeDone) => addPeerCalls = 0 /\ removePeerCalls = 0

\* a session that had added its peer ended on a read error and removed it
C20_Witness ==
    /\ pc = "done"
    /\ handshakeDone
    /\ msg.readErr
    /\ addPeerCalls = 1
    /\ removePeerCalls = 1

\* C13: the status is the first message written to the peer, and the
\* storeRequestLoop sends no store message before the handshake has completed
C13_StatusWrittenFirst ==
    /\ written # <<>> => written[1] = statusMsg
    /\ stored # <<>> => pc \in {"handle", "done"} /\ handshakeDone

\* C16: a storeRequestLoop that stands at an entry of its peer whose chunk is
\* missing goes on: it comes to another key, to a new Seek, or to its exit
C16_MissingChunkSkipped ==
    \A k \in OwnKeys :
        (loop = "running" /\ nLeft > 0 /\ key = k /\ keyChunk(k) \notin dbStore)
            ~> (key # k \/ nLeft = 0 \/ loop = "exited")

\* C17: while the session stays open, every entry of its peer in the database
\* whose chunk is in the store is eventually sent as a store message
C17_EntriesEventuallySent ==
    \A c \in Chunks :
        (dbKey(addrKey, c) \in requestDb /\ c \in dbStore)
            ~> (pc = "done" \/ \E i \in DOMAIN stored : stored[i] = c)

\* C18: when the session has ended, its storeRequestLoop eventually exits
C18_LoopExits == (pc = "done") ~> (loop = "exited")

\* the position of chunk key c in the order of the puts
putOrder(c) == CHOOSE i \in DOMAIN enqueued : enqueued[i] = c

\* C19: the store messages of the loop come in the order in which their chunk
\* keys were put in the database for this peer
C19_InsertionOrder ==
    \A i \in DOMAIN stored : \A j \in DOMAIN stored :
        i < j => putOrder(stored[i]) < putOrder(stored[j])

\* the frame is a store, retrieve or peers message that handle decodes and
\* hands on, whatever its size
handled(m) ==
    /\ ~m.readErr
    /\ m.code \in {storeRequestMsg, retrieveRequestMsg, peersMsg}
    /\ m.decodes
    /\ ~(m.code = retrieveRequestMsg /\ m.keyNil)

\* C24: a frame of exactly ProtocolMaxMsgSize bytes is accepted and one of
\* ProtocolMaxMsgSize + 1 bytes ends the session with ErrMsgTooLarge, for the
\* status frame of the handshake and for any frame of an ACTIVE session
C24_SizeBoundary ==
    /\ (first # noMsg /\ ~first.readErr /\ first.code = statusMsg) =>
          /\ first.size = ProtocolMaxMsgSize + 1
                => pc = "done" /\ err = "ErrMsgTooLarge" /\ addPeerCalls = 0
          /\ (first.size = ProtocolMaxMsgSize /\ addPeerCalls = 0)
                => err # "ErrMsgTooLarge"
          /\ (first.size = ProtocolMaxMsgSize /\ first.decodes
                /\ first.version = Version /\ first.networkId = NetworkId)
                => addPeerCalls = 1
    /\ (msg # noMsg /\ ~msg.readErr) =>
          /\ msg.size = ProtocolMaxMsgSize + 1
                => pc = "done" /\ err = "ErrMsgTooLarge" /\ dispatched = -1
          /\ msg.size = ProtocolMaxMsgSize => err # "ErrMsgTooLarge"
          /\ (msg.size = ProtocolMaxMsgSize /\ handled(msg))
                => pc = "handle" /\ err = "nil" /\ dispatched = msg.code

\* a session whose status frame and whose last frame both had exactly
\* ProtocolMaxMsgSize bytes is still ACTIVE
C24_Witness ==
    /\ pc = "handle"
    /\ first.size = ProtocolMaxMsgSize
    /\ msg.size = ProtocolMaxMsgSize
    /\ dispatched = peersMsg

\* C28: getNodes terminates, within MaxProx + 1 rounds of its loop, for every
\* target (here the own address and a peer of every bin) and every max >= 0
\* in every state of the table, and reads no bucket outside [0, MaxProx]
C28_GetNodesTerminates ==
    \A target \in Targets : \A max \in 0 .. MaxGet :
        LET g == getNodes(target, max)
        IN /\ ~g.panic
           /\ g.steps <= MaxProx + 1

\* a table with proxLimit beyond MaxProx in which getNodes went through
\* every bin
C28_Witness ==
    /\ proxLimit > MaxProx
    /\ \E target \in Targets : getNodes(target, MaxGet).steps = MaxProx + 1

\* the first bin above r at which the advance of proxLimit stops: MaxProx or
\* beyond, or an empty bin
firstStop(bs, r) ==
    CHOOSE p \in r + 1 .. MaxProx + 1 :
        /\ p >= MaxProx \/ bs[p] = <<>>
        /\ \A q \in r + 1 .. p - 1 : q < MaxProx /\ bs[q] # <<>>

\* C29: an AddNode into bin r = proxLimit moves proxLimit past r and past
\* every directly following non-empty bin, up to the first empty bin or
\* MaxProx, and lowers proxSize by the sizes of the bins above r passed over
C29_AtLimitAdvances ==
    [][\A node \in Peers :
          LET r == proximityBin(node)
          IN \A worst \in worstNodes(buckets[r]) :
                (AddNode(node, worst) /\ r = proxLimit) =>
                    LET p == firstStop(buckets, r)
                    IN /\ proxLimit' = p
                       /\ proxSize' = proxSize - sumLen(buckets, r + 1, p - 1)]_vars

\* an AddNode into the bin at proxLimit moved proxLimit past a following
\* non-empty bin
C29_Witness ==
    /\ last.op = "AddNode"
    /\ last.index = last.proxLimit
    /\ proxLimit >= last.index + 2
    /\ buckets[last.index + 1] # <<>>

\* C30: an AddNode into a bin r > proxLimit advances proxLimit by one if
\* proxSize + 1 > MaxProxBinSize, and otherwise leaves proxLimit and adds 1 to
\* proxSize; an AddNode into a bin r < proxLimit leaves both unchanged
C30_AboveLimit ==
    [][\A node \in Peers :
          LET r == proximityBin(node)
          IN \A worst \in worstNodes(buckets[r]) :
                AddNode(node, worst) =>
                    /\ (r > proxLimit /\ proxSize + 1 > MaxProxBinSize)
                          => proxLimit' = proxLimit + 1
                    /\ (r > proxLimit /\ proxSize + 1 <= MaxProxBinSize)
                          => proxLimit' = proxLimit /\ proxSize' = proxSize + 1
                    /\ r < proxLimit
                          => proxLimit' = proxLimit /\ proxSize' = proxSize]_vars

\* an AddNode into a bin above proxLimit advanced proxLimit by one
C30_Witness ==
    /\ last.op = "AddNode"
    /\ last.index > last.proxLimit
    /\ proxLimit = last.proxLimit + 1

\* C21: Load of a snapshot returns the address mismatch error when the
\* snapshot's address differs from the table's own address, and no error when
\* they are equal; the node records of the snapshot are then the nodeDB
C21_LoadChecksAddress ==
    [][(Load /\ file.kind = "kadDB") =>
          /\ (file.Address # addr => loadErr' = "address mismatch")
          /\ (file.Address = addr => loadErr' = "nil" /\ nodeDB' = file.Nodes)]_vars

C21_Witness ==
    /\ loadErr = "nil"
    /\ file.kind = "kadDB"
    /\ file.Address = addr
    /\ nodeDB = file.Nodes
    /\ nodeDB # emptyDB
    /\ nodeIndex = {}

\* the list C22 describes: for the rounds 0 .. max-1 in turn and the bins in
\* turn, nodeDB[i][round] where the bin has a record at round and its peers
\* plus round are below currentMaxBucketSize
wantedRecords(max) ==
    LET RECURSIVE bins(_, _)
        bins(round, i) ==
            IF i > MaxProx THEN <<>>
            ELSE (IF Len(buckets[i]) + round < currentMaxBucketSize /\ round < Len(nodeDB[i])
                  THEN <<nodeDB[i][round + 1]>> ELSE <<>>) \o bins(round, i + 1)
        RECURSIVE rounds(_)
        rounds(round) == IF round >= max THEN <<>> ELSE bins(round, 0) \o rounds(round + 1)
    IN rounds(0)

C23_RemoveNotifiesOnce ==
    /\ (last.op = "RemoveNode" /\ GetNode) => notified = <<proximityBin(last.node)>>
    /\ last.op = "AddNode" => notified = <<>>

C23_Witness ==
    /\ GetNode
    /\ last.op = "RemoveNode"
    /\ last.len > 0
    /\ notified = <<0>>
    /\ proximityBin(last.node) = 0

\* C25: AddNodeRecords adds one record to nodeDB, in the bin of its address,
\* for each address that has no entry in nodeIndex, and nothing for an address
\* that has one, so that merging the same list again changes nothing; buckets,
\* count, proxLimit and proxSize are unchanged
C25_MergeRecords ==
    [][\A nrs \in RecordLists :
          AddNodeRecords(nrs) =>
              /\ UNCHANGED <<buckets, count, proxLimit, proxSize>>
              /\ nodeIndex' = nodeIndex \cup Range(nrs)
              /\ \A i \in 0 .. AddrBits - 1 :
                    LET new == {a \in Range(nrs) \ nodeIndex : proximityBin(a) = i}
                    IN /\ Len(nodeDB'[i]) = Len(nodeDB[i]) + Cardinality(new)
                       /\ SubSeq(nodeDB'[i], 1, Len(nodeDB[i])) = nodeDB[i]
                       /\ {nodeDB'[i][j] : j \in Len(nodeDB[i]) + 1 .. Len(nodeDB'[i])} = new
              /\ addNodeRecords([nodeIndex |-> nodeIndex', nodeDB |-> nodeDB'], nrs)
                     = [nodeIndex |-> nodeIndex', nodeDB |-> nodeDB']]_vars

C25_Witness ==
    /\ nodeIndex = {1, 2}
    /\ nodeDB[proximityBin(2)] = <<2>>
    /\ nodeDB[proximityBin(1)] = <<1>>
    /\ buckets[proximityBin(1)] = <<1>>
    /\ recording = {}

\* C26: proxCmp(t, a, b) < 0 implies proximity(t, a) >= proximity(t, b), and
\* proxCmp(t, a, b) = 0 exactly when a = b
C26_ProxCmpOrder ==
    call.op = "done" =>
        /\ (call.cmp < 0 => call.ta >= call.tb)
        /\ (call.cmp = 0 <=> call.a = call.b)

C26_Witness ==
    /\ call.op = "done"
    /\ call.cmp < 0
    /\ call.ta > call.tb

\* C27: proximity(x, y) is the index of the first bit in which x and y differ,
\* lies in [0, address bit length], is the bit length exactly when x = y, and
\* is symmetric; the bin of an address is min(proximity(self, address), MaxProx),
\* a valid bucket index
C27_ProximityBin ==
    call.op = "done" =>
        /\ call.ta \in 0 .. AddrBits
        /\ (call.ta = AddrBits <=> call.t = call.a)
        /\ call.ta = call.at
        /\ \A i \in 0 .. call.ta - 1 : Bit(call.t, i) = Bit(call.a, i)
        /\ (call.ta < AddrBits => Bit(call.t, call.ta) # Bit(call.a, call.ta))
        /\ (call.t = addr => call.bin = Min2(call.ta, MaxProx))
        /\ call.bin \in 0 .. MaxProx

C27_Witness ==
    /\ call.op = "done"
    /\ call.t = addr
    /\ call.a = addr
    /\ call.ta = AddrBits
    /\ call.bin = MaxProx

\* C31: the loop of a session sends store messages only for chunks that were
\* queued for its own peer and deletes only keys that begin with its own
\* address key, while the session of another peer puts and deletes its keys
\* in the same database
C31_OwnKeysOnly ==
    [][StoreLoop =>
          /\ requestDb \ requestDb' \subseteq OwnKeys
          /\ \A i \in Len(stored) + 1 .. Len(stored') : stored'[i] \in Range(enqueued)]_vars

\* the loop has sent every entry of its peer and left those of the other peer
C31_Witness ==
    /\ stored # <<>>
    /\ requestDb \cap OwnKeys = {}
    /\ OtherKeys \subseteq requestDb
    /\ Range(enqueued) # Chunks

\* C33: count equals the number of peers held in the buckets
C33_CountMatches == count = sumLen(buckets, 0, MaxProx)

\* C34: proxSize is never negative
C34_ProxSizeNonNegative == proxSize >= 0

\* C35: proxLimit is a bin index: 0 <= proxLimit <= MaxProx
C35_ProxLimitInRange == proxLimit \in 0 .. MaxProx

\* C36: no address has more than one bucket entry
C36_NoDuplicates ==
    \A e1 \in entries : \A e2 \in entries : e1.addr = e2.addr => e1 = e2

\* C37: after RemoveNode(node) no bucket holds an entry with node's address
C37_RemovedIsGone ==
    last.op = "RemoveNode" => \A e \in entries : e.addr # last.node

\* C32: setTimeout(t) with a non-nil t makes the field Timeout of the message
\* the UnixNano of t, and 0 when t is nil; a following getTimeout returns the
\* time that was set
C32_TimeoutRoundTrip ==
    /\ timeCall.set =>
          msgData.Timeout = (IF timeCall.t.nil THEN 0 ELSE UnixNano(timeCall.t))
    /\ (timeCall.set /\ timeCall.op = "getTimeout") => timeCall.ret = timeCall.t

\* C38: every record of nodeDB has an entry in nodeIndex under its address and
\* sits in the bin of its address, and no address has two records in nodeDB
C38_RecordsIndexed ==
    \A i \in 0 .. AddrBits - 1 : \A j \in 1 .. Len(nodeDB[i]) :
        /\ nodeDB[i][j] \in nodeIndex
        /\ proximityBin(nodeDB[i][j]) = i
        /\ \A k \in 0 .. AddrBits - 1 : \A l \in 1 .. Len(nodeDB[k]) :
              nodeDB[k][l] = nodeDB[i][j] => (k = i /\ l = j)

\* C39: a Load that returns the address mismatch error leaves nodeDB and
\* nodeIndex as they were
C39_FailedLoadKeepsTable ==
    [][(Load /\ loadErr' = "address mismatch") => UNCHANGED <<nodeDB, nodeIndex>>]_vars

\* C40: Start on a running table changes neither the address nor the state,
\* Stop on a stopped table changes nothing, and Start on a stopped table
\* leaves all buckets empty, count = 0, proxLimit = 0 and proxSize = 0
C40_StartStop ==
    [][/\ \A a \in {addr, foreignAddr} :
            /\ (Start(a) /\ kadQuitC # "nil") =>
                   UNCHANGED <<selfAddr, buckets, count, proxLimit, proxSize, nodeDB,
                               nodeIndex, kadQuitC>>
            /\ (Start(a) /\ kadQuitC = "nil") =>
                   /\ \A i \in 0 .. MaxProx : buckets'[i] = <<>>
                   /\ count' = 0
                   /\ proxLimit' = 0
                   /\ proxSize' = 0
       /\ \A hasPath \in BOOLEAN : \A ok \in BOOLEAN :
            (Stop(hasPath, ok) /\ kadQuitC = "nil") =>
                UNCHANGED <<selfAddr, buckets, count, proxLimit, proxSize, nodeDB,
                            nodeIndex, kadQuitC, file>>]_vars

====
